---- MODULE Spec2Model ----
(***************************************************************************)
(* Model of zendesk-to-canny: the Zendesk client's GetPosts pipeline       *)
(* (paginated listing, worker pool, user batch loader) and the Migration   *)
(* state machine with its ledger ("state file").                           *)
(*                                                                         *)
(* Representation:                                                         *)
(*   - a Go string is a TLA+ string, "" is the empty string;               *)
(*   - a *User is the record [ID |-> n], the nil pointer is NilUser;       *)
(*   - an error value is a string, the nil error is None;                  *)
(*   - a page cursor (url) is the index of the page it addresses, the      *)
(*     empty cursor "" is NoPage;                                          *)
(*   - a decoded response is [err, null, items, NextPage]: err says that   *)
(*     Client.get returned an error, null that the item array was nil.     *)
(***************************************************************************)
EXTENDS Integers, Sequences, FiniteSets, TLC

(* ------------------------------ bounds --------------------------------- *)
MaxRuns == 2
Parallel == 2
MaxPages == 3
MaxIDs == 250

(* --------------------------- program constants ------------------------- *)
batchSize == 100

None == "nil"
NilUser == [nil |-> TRUE]
NoPage == 0

UserRec(id) == [ID |-> id]

(* ------------------------------ source world --------------------------- *)
(* Two topics; topic T1 lists posts 1 and 2 on two pages, T2 lists post 3. *)
(* Post 1 has two comments on two pages (the first by a deleted user),     *)
(* post 2 has two votes (the first by a deleted user), post 3 has nothing. *)
SourceTopics == {"T1", "T2"}

TopicPages == [T1 |-> << <<1>>, <<2>> >>, T2 |-> << <<3>> >>]

SourcePosts ==
  [p \in {1, 2, 3} |->
     CASE p = 1 -> [ID |-> 1, AuthorID |-> 1, CommentCount |-> 2, VoteCount |-> 0,
                    Comments |-> <<>>, UserVotes |-> <<>>, Author |-> NilUser]
       [] p = 2 -> [ID |-> 2, AuthorID |-> 2, CommentCount |-> 0, VoteCount |-> 2,
                    Comments |-> <<>>, UserVotes |-> <<>>, Author |-> NilUser]
       [] p = 3 -> [ID |-> 3, AuthorID |-> 1, CommentCount |-> 0, VoteCount |-> 0,
                    Comments |-> <<>>, UserVotes |-> <<>>, Author |-> NilUser]]

PostIDs == DOMAIN SourcePosts

mkComment(id, author) == [ID |-> id, AuthorID |-> author, Author |-> NilUser]
mkVote(id, user) == [ID |-> id, UserID |-> user, User |-> NilUser]

CommentPages ==
  [p \in PostIDs |->
     IF p = 1 THEN << <<mkComment(11, 3)>>, <<mkComment(12, 2)>> >>
              ELSE << <<>> >>]

VotePages ==
  [p \in PostIDs |->
     IF p = 2 THEN << <<mkVote(21, 3), mkVote(22, 1)>> >>
              ELSE << <<>> >>]

(* users that the source still knows; every third user was deleted        *)
SourceUsers == {u \in 1 .. MaxIDs : u % 3 # 0}
UserIDs == {1, 2, 3}

(* --agent 2:A2                                                            *)
Agents == [u \in {2} |-> "A2"]

TopicOfPost(p) == CHOOSE t \in SourceTopics : \E k \in DOMAIN TopicPages[t] :
                     \E i \in DOMAIN TopicPages[t][k] : TopicPages[t][k][i] = p

RECURSIVE Flatten(_)
Flatten(ss) == IF ss = <<>> THEN <<>> ELSE Head(ss) \o Flatten(Tail(ss))

Range(s) == {s[i] : i \in DOMAIN s}

(* the (kind, id) records that belong to parent p                          *)
RecordsOfPost(p) ==
  {<<"post", p>>}
    \cup {<<"comment", c.ID>> : c \in Range(Flatten(CommentPages[p]))}
    \cup {<<"vote", v.ID>> : v \in Range(Flatten(VotePages[p]))}

(* --------------------------- server responses -------------------------- *)
ErrResponse == [err |-> TRUE, null |-> FALSE, items |-> <<>>, NextPage |-> NoPage]
Page(items, next) == [err |-> FALSE, null |-> FALSE, items |-> items, NextPage |-> next]
NullPage(next) == [err |-> FALSE, null |-> TRUE, items |-> <<>>, NextPage |-> next]

(* the intact server for a chain of pages: page i points to page i+1       *)
Intact(pages) ==
  [i \in DOMAIN pages |-> Page(pages[i], IF i = Len(pages) THEN NoPage ELSE i + 1)]

(* what a server can answer for a chain: every page intact, or one request *)
(* failing (transport error / non-200 / undecodable body), or one page     *)
(* carrying a null item array                                              *)
Servers(pages) ==
  {Intact(pages)}
    \cup {[Intact(pages) EXCEPT ![k] = ErrResponse] : k \in DOMAIN pages}
    \cup {[Intact(pages) EXCEPT ![k] = NullPage(Intact(pages)[k].NextPage)] : k \in DOMAIN pages}

(* ------------------------- Paginated fetcher --------------------------- *)
(* Result of a fetch: the items, the error and the number of requests.     *)
FetchResult(items, err, reqs) == [items |-> items, err |-> err, reqs |-> reqs]

RECURSIVE getCommentsLoop(_, _, _, _)
getCommentsLoop(server, url, comments, page) ==
  LET response == server[url] IN
    IF response.err
      THEN FetchResult(<<>>, "get", page + 1)
    ELSE IF response.null /\ response.NextPage # NoPage
      THEN FetchResult(<<>>, "notfound", page + 1)
    ELSE IF response.NextPage = NoPage
      THEN FetchResult(comments \o response.items, None, page + 1)
    ELSE getCommentsLoop(server, response.NextPage, comments \o response.items, page + 1)

getCommentsFirstPageOnly(server) ==
  LET response == server[1] IN
    IF response.err THEN FetchResult(<<>>, "get", 1)
    ELSE IF response.null /\ response.NextPage # NoPage THEN FetchResult(<<>>, "notfound", 1)
    ELSE FetchResult(response.items, None, 1)

getComments(server) == getCommentsLoop(server, 1, <<>>, 0)

RECURSIVE getVotesLoop(_, _, _, _)
getVotesLoop(server, url, votes, page) ==
  LET response == server[url] IN
    IF response.err
      THEN FetchResult(<<>>, "get", page + 1)
    ELSE IF response.null /\ response.NextPage # NoPage
      THEN FetchResult(<<>>, "notfound", page + 1)
    ELSE IF response.NextPage = NoPage
      THEN FetchResult(votes \o response.items, None, page + 1)
    ELSE getVotesLoop(server, response.NextPage, votes \o response.items, page + 1)

RECURSIVE getVotesLoopNullAsEmpty(_, _, _, _)
getVotesLoopNullAsEmpty(server, url, votes, page) ==
  LET response == server[url] IN
    IF response.err
      THEN FetchResult(<<>>, "get", page + 1)
    ELSE IF response.NextPage = NoPage
      THEN FetchResult(votes \o response.items, None, page + 1)
    ELSE getVotesLoopNullAsEmpty(server, response.NextPage, votes \o response.items, page + 1)

getVotesNullAsEmpty(server) == getVotesLoopNullAsEmpty(server, 1, <<>>, 0)

getVotes(server) == getVotesLoop(server, 1, <<>>, 0)

(* ------------------------------- ledger -------------------------------- *)
formatKey(objType, id) == <<objType, id>>

getIDFromState(st, zTopic, objType, id) ==
  IF zTopic \notin DOMAIN st THEN ""
  ELSE IF formatKey(objType, id) \in DOMAIN st[zTopic] THEN st[zTopic][formatKey(objType, id)]
  ELSE ""

saveIDToState(st, zTopic, objType, id, cannyID) ==
  LET old == IF zTopic \in DOMAIN st THEN st[zTopic] ELSE <<>>
      new == [k \in DOMAIN old \cup {formatKey(objType, id)} |->
                IF k = formatKey(objType, id) THEN cannyID ELSE old[k]]
  IN [t \in DOMAIN st \cup {zTopic} |-> IF t = zTopic THEN new ELSE st[t]]

(* the state file holds the JSON text of the ledger: one object per topic  *)
(* with one member per key (json.MarshalIndent / json.Unmarshal)           *)
Marshal(st) ==
  [topics |-> DOMAIN st,
   members |-> UNION {{<<t, k, st[t][k]>> : k \in DOMAIN st[t]} : t \in DOMAIN st}]

Unmarshal(raw) ==
  [t \in raw.topics |->
     [k \in {m[2] : m \in {x \in raw.members : x[1] = t}} |->
        (CHOOSE m \in raw.members : m[1] = t /\ m[2] = k)[3]]]

(* --------------------------- User batch loader ------------------------- *)
RECURSIVE Batches(_)
Batches(ids) ==
  IF batchSize < Len(ids)
    THEN <<SubSeq(ids, 1, batchSize)>> \o Batches(SubSeq(ids, batchSize + 1, Len(ids)))
    ELSE <<ids>>

(* the users of one show_many response: the requested ids the source knows *)
usersResponse(batch) == {UserRec(id) : id \in Range(batch) \cap SourceUsers}

RECURSIVE storeBatches(_, _, _)
storeBatches(users, batches, k) ==
  IF k = 0 THEN users
  ELSE LET before == storeBatches(users, batches, k - 1)
           got == usersResponse(batches[k])
       IN [id \in DOMAIN before \cup {u.ID : u \in got} |->
             IF UserRec(id) \in got THEN UserRec(id) ELSE before[id]]

(* loadUsers where the first ok requests succeed; the next one, if there   *)
(* is one, fails                                                           *)
loadUsers(users, ids, ok) ==
  LET batches == Batches(ids)
      issued == IF ok < Len(batches) THEN ok + 1 ELSE ok
  IN [Users |-> storeBatches(users, batches, ok),
      err |-> IF ok < Len(batches) THEN "users" ELSE None,
      requests |-> SubSeq(batches, 1, issued)]

cacheGet(users, id) == IF id \in DOMAIN users THEN users[id] ELSE NilUser

(* setUsers that fills in the author of the post alone                     *)
setUsersPostOnly(ps, users) ==
  [i \in DOMAIN ps |-> [ps[i] EXCEPT !.Author = cacheGet(users, ps[i].AuthorID)]]
setUsers(ps, users) ==
  [i \in DOMAIN ps |->
     [ps[i] EXCEPT
        !.Author = cacheGet(users, ps[i].AuthorID),
        !.Comments = [j \in DOMAIN ps[i].Comments |->
                        [ps[i].Comments[j] EXCEPT !.Author = cacheGet(users, ps[i].Comments[j].AuthorID)]],
        !.UserVotes = [j \in DOMAIN ps[i].UserVotes |->
                        [ps[i].UserVotes[j] EXCEPT !.User = cacheGet(users, ps[i].UserVotes[j].UserID)]]]]

(* the user-id consumer loads an id only when the cache has no slot for it *)
needsLoadWhenNil(users, userID) == cacheGet(users, userID) = NilUser
needsLoad(users, userID) == userID \notin DOMAIN users

consumeUserID(users, toLoad, userID) ==
  IF needsLoad(users, userID)
    THEN [Users |-> [id \in DOMAIN users \cup {userID} |->
                       IF id = userID THEN NilUser ELSE users[id]],
          usersToLoad |-> Append(toLoad, userID)]
    ELSE [Users |-> users, usersToLoad |-> toLoad]
(* ------------------------- destination (canny) ------------------------- *)
(* What the destination answers to one call: "fail" (transport error or    *)
(* non-200), "empty" (200 with a body that carries no id / is not the      *)
(* success token) or "ok".                                                 *)
Answers == {"fail", "empty", "ok"}
Outcomes == [foc : Answers, create : Answers]

(* identifiers handed out by the destination: a first one per source       *)
(* record and a different one for every later creation of the same record  *)
NewID(objType, id, n) ==
  LET ids == CASE objType = "post" /\ id = 1 -> <<"P1", "P1x">>
               [] objType = "post" /\ id = 2 -> <<"P2", "P2x">>
               [] objType = "post" /\ id = 3 -> <<"P3", "P3x">>
               [] objType = "comment" /\ id = 11 -> <<"C11", "C11x">>
               [] objType = "comment" /\ id = 12 -> <<"C12", "C12x">>
               [] OTHER -> <<"X", "Xx">>
  IN IF n = 0 THEN ids[1] ELSE ids[2]

CannyUserID(id) == CASE id = 1 -> "U1" [] id = 2 -> "U2" [] OTHER -> "U3"

CClientCreatePost(answer, id, n) ==
  IF answer = "fail" THEN [id |-> "", err |-> "create"]
  ELSE [id |-> IF answer = "empty" THEN "" ELSE NewID("post", id, n), err |-> None]

CClientCreateComment(answer, id, n) ==
  IF answer = "fail" THEN [id |-> "", err |-> "create"]
  ELSE [id |-> IF answer = "empty" THEN "" ELSE NewID("comment", id, n), err |-> None]

CClientCreateVote(answer) ==
  IF answer = "fail" THEN "create"
  ELSE IF answer # "ok" THEN "unknown error while creating vote"
  ELSE None

CClientFindOrCreateUser(answer, id) ==
  IF answer = "fail" THEN [id |-> "", err |-> "find_or_create"]
  ELSE [id |-> IF answer = "empty" THEN "" ELSE CannyUserID(id), err |-> None]

(* --------------------------- author resolution ------------------------- *)
mapGet(um, id) == IF id \in DOMAIN um THEN um[id] ELSE ""

Resolved(userID, err, um, foc, focOK) ==
  [userID |-> userID, err |-> err, UserMapping |-> um, foc |-> foc, focOK |-> focOK]

findOrCreateUser(user, um, answer) ==
  IF mapGet(um, user.ID) # ""
    THEN Resolved(mapGet(um, user.ID), None, um, {}, {})
    ELSE LET r == CClientFindOrCreateUser(answer, user.ID) IN
           IF r.err # None
             THEN Resolved("", r.err, um, {user.ID}, {})
             ELSE Resolved(r.id, None,
                           [i \in DOMAIN um \cup {user.ID} |-> IF i = user.ID THEN r.id ELSE um[i]],
                           {user.ID}, {user.ID})

resolveUser(user, objType, default, um, answer) ==
  IF user = NilUser
    THEN IF default = ""
           THEN Resolved("", "no user and no default user", um, {}, {})
           ELSE Resolved(default, None, um, {}, {})
    ELSE findOrCreateUser(user, um, answer)

(* Result of createPost / createComment / createVote: the returned id and  *)
(* error, the user mapping afterwards, whether the destination create call *)
(* was issued, the author and the post id it carried and the               *)
(* find-or-create calls made (foc) and answered with success (focOK).      *)
Created(id, err, u, called, postID) ==
  [id |-> id, err |-> err, UserMapping |-> u.UserMapping, called |-> called,
   AuthorID |-> u.userID, PostID |-> postID, foc |-> u.foc, focOK |-> u.focOK]

createPost(post, default, um, out, n) ==
  LET u == resolveUser(post.Author, "post", default, um, out.foc) IN
    IF u.err # None THEN Created("", u.err, u, FALSE, "")
    ELSE LET r == CClientCreatePost(out.create, post.ID, n) IN Created(r.id, r.err, u, TRUE, "")

createCommentNoPostID(comment, postID, default, um, out, n) ==
  LET u == resolveUser(comment.Author, "comment", default, um, out.foc) IN
    IF u.err # None THEN Created("", u.err, u, FALSE, "")
    ELSE LET r == CClientCreateComment(out.create, comment.ID, n) IN Created(r.id, r.err, u, TRUE, "")

createComment(comment, postID, default, um, out, n) ==
  LET u == resolveUser(comment.Author, "comment", default, um, out.foc) IN
    IF u.err # None THEN Created("", u.err, u, FALSE, postID)
    ELSE LET r == CClientCreateComment(out.create, comment.ID, n) IN Created(r.id, r.err, u, TRUE, postID)

createVote(vote, postID, default, um, out) ==
  LET u == resolveUser(vote.User, "vote", default, um, out.foc) IN
    IF u.err # None THEN Created("", u.err, u, FALSE, postID)
    ELSE LET err == CClientCreateVote(out.create) IN
           IF err # None THEN Created("", err, u, TRUE, postID) ELSE Created("s", None, u, TRUE, postID)

(* migratePost line 118: a vote is passed over when it is ledgered or its  *)
(* voter is nil                                                            *)
voteSkippedLedgerOnly(st, zTopic, vote) ==
  getIDFromState(st, zTopic, "vote", vote.ID) # ""

voteSkipped(st, zTopic, vote) ==
  getIDFromState(st, zTopic, "vote", vote.ID) # "" \/ vote.User = NilUser
(* ------------------------------- state --------------------------------- *)
VARIABLES
  run,            \* number of the current process (run of the tool)
  pc,             \* position of the main goroutine in Migrate / GetPosts
  file,           \* the state file: [exists, raw]
  state,          \* Migration.state, the ledger in memory
  todo,           \* topics of s.Topics not yet ranged over
  zTopic,         \* the topic of the current iteration
  UserMapping,    \* Migration.UserMapping
  DefaultUserID,  \* Migration.DefaultUserID
  Topics,         \* Migration.Topics (the topic ids; the boards are payload)
  ParallelLoad,   \* Migration.ParallelLoad
  url, NextPage,  \* GetPosts: cursor of the next request, response.NextPage
  sendQ,          \* GetPosts: posts of the current response not yet sent
  fatalError,     \* GetPosts: fatalError
  posts, errs,    \* GetPosts: collected posts and errors
  Users,          \* Client.Users, the user cache
  usersToLoad,    \* GetPosts: usersToLoad
  closed,         \* channels that have been closed
  consDone,       \* consumer goroutines that have called routinesWG.Done
  wpc, wpost, wq, werr,  \* workers: position, post, ids still to send, error
  pi, mpc, ci, postID,   \* Migrate / migratePost: post index, position, child index, postID
  created,        \* history: successful create calls per (topic, kind, id), all runs
  calls,          \* history: (topic, kind, id) of the create calls issued in this run
  loaded,         \* history: the ledger as loaded by this run
  requested,      \* history: per user id, its occurrences in the id lists of this run's batch requests
  fetchFailed,    \* history: parents whose comment or vote fetch failed in this run
  resSent, errSent, \* history: per parent, sends on resCh / errCh in this run
  pageFailed,     \* history: topics whose listing failed on a page in this run
  failedPosts,    \* history: parents for which migratePost failed in this run
  nilVotes,       \* history: votes whose User was nil after GetPosts in this run
  saves,          \* history: saveState calls of this run
  runClean,       \* history: nothing has failed in this run so far
  prevClean,      \* history: the previous run ended without any failure and saved
  idsSent,        \* history: <<parent, user id>> sent on usersCh by the parent's worker in this run
  getPostsReturn, \* history: per topic, what GetPosts returned to Migrate in this run
  answered,       \* history: user ids of the batch requests that succeeded in this run
  fetches,        \* history: <<kind, parent>> of the comment / vote fetches called in this run
  received,       \* history: parents that a worker has received from loadPostsCh in this run
  succeeded,      \* history: (topic, kind, id, returned id) of the create calls that succeeded in this run
  postOrder,      \* history: parent ids in the order of this run's create-post calls
  lastCall,       \* history: the arguments of the most recent create call of this run
  focOK, focCalls,\* history: per user id, successful find-or-create calls / ids it was called for
  fserver, fres,  \* the paginated fetcher on its own: server and result
  bids, bres,     \* the batch loader on its own: pending ids and result
  printed,        \* what Migrate has printed of the ledger (s.Logger.Print(s.state))
  returned        \* what Migrate has returned, NoReturn while it runs

gpVars == <<url, NextPage, sendQ, fatalError, posts, errs, usersToLoad, closed, consDone,
            wpc, wpost, wq, werr>>
mVars == <<pi, mpc, ci, postID>>
histVars == <<created, calls, loaded, requested, fetchFailed, resSent, errSent, pageFailed,
              failedPosts, nilVotes, saves, runClean, prevClean>>
fVars == <<fserver, fres>>
poolHist == <<fetches, received, idsSent, getPostsReturn, answered>>
callHist == <<succeeded, postOrder, lastCall, focOK, focCalls>>
endVars == <<printed, returned>>
migHist == <<callHist, endVars>>
bVars == <<bids, bres>>
vars == <<run, pc, file, state, todo, zTopic, UserMapping, DefaultUserID, Topics, ParallelLoad, Users,
          gpVars, mVars, histVars, fVars, poolHist, migHist, bVars>>

Workers == 1 .. ParallelLoad
Consumers == {"resCh", "errCh", "usersCh"}
Triples == UNION {{<<TopicOfPost(p), r[1], r[2]>> : r \in RecordsOfPost(p)} : p \in PostIDs}
NoPost == [ID |-> 0, AuthorID |-> 0, CommentCount |-> 0, VoteCount |-> 0,
           Comments |-> <<>>, UserVotes |-> <<>>, Author |-> NilUser]
NoErr == [postID |-> 0, what |-> None]
NotFetched == [fn |-> "none", res |-> FetchResult(<<>>, None, 0)]
NotPrinted == [printed |-> FALSE, state |-> <<>>]
NoReturn == "running"
NoCall == [objType |-> "none", id |-> 0, PostID |-> ""]
NotReturned == [returned |-> FALSE, posts |-> <<>>, errs |-> <<>>, err |-> None]
NotLoaded == [called |-> FALSE, Users |-> <<>>, err |-> None, requests |-> <<>>]

(* values of the GetPosts locals and the worker pool outside GetPosts      *)
GetPostsIdle ==
  /\ url = NoPage /\ NextPage = NoPage /\ sendQ = <<>> /\ fatalError = None
  /\ posts = <<>> /\ errs = <<>> /\ usersToLoad = <<>>
  /\ closed = {} /\ consDone = {}
  /\ wpc = [w \in Workers |-> "none"] /\ wpost = [w \in Workers |-> NoPost]
  /\ wq = [w \in Workers |-> <<>>] /\ werr = [w \in Workers |-> NoErr]

MigrateIdle == pi = 0 /\ mpc = "none" /\ ci = 0 /\ postID = ""

(* a new process: main() builds the clients and the Migration              *)
ProcessStart ==
  /\ pc = "load" /\ state = <<>> /\ todo = Topics /\ zTopic = ""
  /\ UserMapping = Agents /\ Users = <<>>
  /\ GetPostsIdle /\ MigrateIdle
  /\ calls = {} /\ loaded = <<>> /\ requested = [u \in UserIDs |-> 0]
  /\ fetchFailed = {} /\ resSent = [p \in PostIDs |-> 0] /\ errSent = [p \in PostIDs |-> 0]
  /\ pageFailed = {} /\ failedPosts = {} /\ nilVotes = {} /\ saves = 0 /\ runClean = TRUE
  /\ fetches = {} /\ received = {} /\ idsSent = {}
  /\ getPostsReturn = [t \in SourceTopics |-> NotReturned] /\ answered = {}
  /\ succeeded = {} /\ postOrder = <<>> /\ lastCall = NoCall
  /\ focOK = [u \in UserIDs |-> 0] /\ focCalls = {}
  /\ printed = NotPrinted /\ returned = NoReturn

(* The tool is run once with --parallel Parallel on both topics, the state *)
(* file does not exist yet.                                                *)
Init ==
  /\ run = 1
  /\ file = [exists |-> FALSE, raw |-> Marshal(<<>>)]
  /\ DefaultUserID \in {"", "D"}
  /\ Topics = SourceTopics
  /\ ParallelLoad = Parallel
  /\ created = [t \in Triples |-> 0]
  /\ prevClean = FALSE
  /\ fserver = <<>> /\ fres = NotFetched
  /\ bids = <<>> /\ bres = NotLoaded
  /\ ProcessStart

(* ----------------------------- Migrate: start -------------------------- *)
(* loadState: a missing file is an empty ledger; reading or decoding an    *)
(* existing file can fail, and then Migrate returns                        *)
loadState(f, readOK) ==
  IF ~f.exists THEN [state |-> <<>>, err |-> None]
  ELSE IF ~readOK THEN [state |-> <<>>, err |-> "read"]
  ELSE [state |-> Unmarshal(f.raw), err |-> None]

LoadState ==
  /\ pc = "load"
  /\ \E readOK \in BOOLEAN :
       LET r == loadState(file, readOK) IN
         /\ state' = r.state
         /\ loaded' = r.state
         /\ pc' = IF r.err # None THEN "exit" ELSE "topics"
         /\ returned' = IF r.err # None THEN "cannot load State file" ELSE returned
         /\ runClean' = (runClean /\ r.err = None)
  /\ UNCHANGED <<run, file, todo, zTopic, UserMapping, DefaultUserID, Topics, ParallelLoad, Users, gpVars, mVars,
                 created, calls, requested, fetchFailed, resSent, errSent, pageFailed,
                 failedPosts, nilVotes, saves, prevClean, fVars, poolHist, callHist, printed, bVars>>

(* one iteration of "for zTopic, cBoard := range s.Topics" starts: the map *)
(* order is not fixed; GetPosts creates its channels and goroutines        *)
NextTopic ==
  /\ pc = "topics" /\ todo # {}
  /\ \E t \in todo :
       /\ zTopic' = t
       /\ todo' = todo \ {t}
  /\ pc' = "get"
  /\ url' = 1 /\ NextPage' = NoPage /\ sendQ' = <<>> /\ fatalError' = None
  /\ posts' = <<>> /\ errs' = <<>> /\ usersToLoad' = <<>>
  /\ closed' = {} /\ consDone' = {}
  /\ wpc' = [w \in Workers |-> "recv"]
  /\ UNCHANGED <<run, file, state, UserMapping, DefaultUserID, Topics, ParallelLoad, Users, wpost, wq, werr,
                 mVars, histVars, fVars, poolHist, migHist, bVars>>

(* ----------------------- GetPosts: the listing loop -------------------- *)
(* what the source can answer for page k of the listing of topic t         *)
ListingPages(t) == [i \in DOMAIN TopicPages[t] |->
                      [j \in DOMAIN TopicPages[t][i] |-> SourcePosts[TopicPages[t][i][j]]]]
PageResponses(t, k) == {srv[k] : srv \in Servers(ListingPages(t))}

(* where the listing loop goes when a response has been sent out           *)
afterPage(next) == IF next = NoPage THEN "close" ELSE "get"

GetPage ==
  /\ pc = "get"
  /\ \E response \in PageResponses(zTopic, url) :
       /\ runClean' = (runClean /\ response = Intact(ListingPages(zTopic))[url])
       /\ IF response.err
            THEN /\ fatalError' = "error while getting page"
                 /\ pageFailed' = pageFailed \cup {zTopic}
                 /\ pc' = "close"
                 /\ UNCHANGED <<url, NextPage, sendQ>>
          ELSE IF response.null /\ response.NextPage # NoPage
            THEN /\ fatalError' = "posts are not found"
                 /\ pageFailed' = pageFailed \cup {zTopic}
                 /\ pc' = "close"
                 /\ UNCHANGED <<url, NextPage, sendQ>>
          ELSE /\ sendQ' = response.items
               /\ NextPage' = response.NextPage
               /\ url' = IF response.items = <<>> THEN response.NextPage ELSE url
               /\ pc' = IF response.items = <<>> THEN afterPage(response.NextPage) ELSE "send"
               /\ UNCHANGED <<fatalError, pageFailed>>
  /\ UNCHANGED <<run, file, state, todo, zTopic, UserMapping, DefaultUserID, Topics, ParallelLoad, Users,
                 posts, errs, usersToLoad, closed, consDone, wpc, wpost, wq, werr, mVars,
                 created, calls, loaded, requested, fetchFailed, resSent, errSent,
                 failedPosts, nilVotes, saves, prevClean, fVars, poolHist, migHist, bVars>>

(* "loadPostsCh <- &postVar" meets "for post := range postsCh" of worker w *)
SendPost(w) ==
  /\ pc = "send" /\ sendQ # <<>>
  /\ wpc[w] = "recv"
  /\ "loadPostsCh" \notin closed
  /\ wpost' = [wpost EXCEPT ![w] = Head(sendQ)]
  /\ wpc' = [wpc EXCEPT ![w] = "sendAuthor"]
  /\ sendQ' = Tail(sendQ)
  /\ url' = IF Tail(sendQ) = <<>> THEN NextPage ELSE url
  /\ pc' = IF Tail(sendQ) = <<>> THEN afterPage(NextPage) ELSE "send"
  /\ received' = received \cup {Head(sendQ).ID}
  /\ UNCHANGED <<run, file, state, todo, zTopic, UserMapping, DefaultUserID, Topics, ParallelLoad, Users, NextPage,
                 fatalError, posts, errs, usersToLoad, closed, consDone, wq, werr, mVars,
                 histVars, fVars, fetches, idsSent, getPostsReturn, answered,
                 migHist, bVars>>

CloseInput ==
  /\ pc = "close"
  /\ closed' = closed \cup {"loadPostsCh"}
  /\ pc' = "wait"
  /\ UNCHANGED <<run, file, state, todo, zTopic, UserMapping, DefaultUserID, Topics, ParallelLoad, Users, url, NextPage,
                 sendQ, fatalError, posts, errs, usersToLoad, consDone, wpc, wpost, wq, werr,
                 mVars, histVars, fVars, poolHist, migHist, bVars>>

(* ------------------------- detailsLoader: workers ---------------------- *)
afterVotes(post) == "sendRes"
afterComments(post) == IF post.VoteCount > 0 THEN "getVotes" ELSE afterVotes(post)
afterAuthorAlwaysFetch(post) == "getComments"
afterAuthor(post) == IF post.CommentCount > 0 THEN "getComments" ELSE afterComments(post)
(* "continue" after "errCh <- err"                                         *)
afterSendErrFallThrough(post) == "sendRes"
afterSendErr(post) == "recv"

workerUnchanged == <<run, pc, file, state, todo, zTopic, UserMapping, DefaultUserID, Topics, ParallelLoad, url, NextPage,
                     sendQ, fatalError, closed, consDone, mVars, created, calls, loaded,
                     requested, pageFailed, failedPosts, nilVotes, saves, prevClean, fVars, received,
                     getPostsReturn, answered, migHist, bVars>>

(* "usersCh <- id" meets the user-id consumer, which runs its loop body    *)
sendUserID(p, id) ==
  /\ "usersCh" \notin closed
  /\ idsSent' = idsSent \cup {<<p, id>>}
  /\ LET r == consumeUserID(Users, usersToLoad, id) IN
       /\ Users' = r.Users
       /\ usersToLoad' = r.usersToLoad

WSendAuthor(w) ==
  /\ wpc[w] = "sendAuthor"
  /\ sendUserID(wpost[w].ID, wpost[w].AuthorID)
  /\ wpc' = [wpc EXCEPT ![w] = afterAuthor(wpost[w])]
  /\ UNCHANGED <<workerUnchanged, posts, errs, wpost, wq, werr, fetchFailed, resSent, errSent,
                 runClean, fetches>>

WGetComments(w) ==
  /\ wpc[w] = "getComments"
  /\ \E server \in Servers(CommentPages[wpost[w].ID]) :
       LET r == getComments(server) IN
         /\ fetches' = fetches \cup {<<"comments", wpost[w].ID>>}
         /\ runClean' = (runClean /\ server = Intact(CommentPages[wpost[w].ID]))
         /\ IF r.err # None
           THEN /\ werr' = [werr EXCEPT ![w] = [postID |-> wpost[w].ID, what |-> "comments"]]
                /\ wpc' = [wpc EXCEPT ![w] = "sendErr"]
                /\ fetchFailed' = fetchFailed \cup {wpost[w].ID}
                /\ UNCHANGED <<wpost, wq>>
           ELSE /\ wpost' = [wpost EXCEPT ![w].Comments = r.items]
                /\ wq' = [wq EXCEPT ![w] = [i \in DOMAIN r.items |-> r.items[i].AuthorID]]
                /\ wpc' = [wpc EXCEPT ![w] = IF r.items = <<>> THEN afterComments(wpost[w])
                                                               ELSE "sendCommentUsers"]
                /\ UNCHANGED <<werr, fetchFailed>>
  /\ UNCHANGED <<workerUnchanged, Users, usersToLoad, posts, errs, resSent, errSent, idsSent>>

WGetVotes(w) ==
  /\ wpc[w] = "getVotes"
  /\ \E server \in Servers(VotePages[wpost[w].ID]) :
       LET r == getVotes(server) IN
         /\ fetches' = fetches \cup {<<"votes", wpost[w].ID>>}
         /\ runClean' = (runClean /\ server = Intact(VotePages[wpost[w].ID]))
         /\ IF r.err # None
           THEN /\ werr' = [werr EXCEPT ![w] = [postID |-> wpost[w].ID, what |-> "votes"]]
                /\ wpc' = [wpc EXCEPT ![w] = "sendErr"]
                /\ fetchFailed' = fetchFailed \cup {wpost[w].ID}
                /\ UNCHANGED <<wpost, wq>>
           ELSE /\ wpost' = [wpost EXCEPT ![w].UserVotes = r.items]
                /\ wq' = [wq EXCEPT ![w] = [i \in DOMAIN r.items |-> r.items[i].UserID]]
                /\ wpc' = [wpc EXCEPT ![w] = IF r.items = <<>> THEN afterVotes(wpost[w])
                                                               ELSE "sendVoteUsers"]
                /\ UNCHANGED <<werr, fetchFailed>>
  /\ UNCHANGED <<workerUnchanged, Users, usersToLoad, posts, errs, resSent, errSent, idsSent>>

WSendUser(w) ==
  /\ wpc[w] \in {"sendCommentUsers", "sendVoteUsers"}
  /\ sendUserID(wpost[w].ID, Head(wq[w]))
  /\ wq' = [wq EXCEPT ![w] = Tail(wq[w])]
  /\ wpc' = [wpc EXCEPT ![w] =
               IF Tail(wq[w]) # <<>> THEN wpc[w]
               ELSE IF wpc[w] = "sendCommentUsers" THEN afterComments(wpost[w])
               ELSE afterVotes(wpost[w])]
  /\ UNCHANGED <<workerUnchanged, posts, errs, wpost, werr, fetchFailed, resSent, errSent,
                 runClean, fetches>>

(* "resCh <- post" meets the results consumer, which appends the post      *)
WSendRes(w) ==
  /\ wpc[w] = "sendRes"
  /\ "resCh" \notin closed
  /\ posts' = Append(posts, wpost[w])
  /\ resSent' = [resSent EXCEPT ![wpost[w].ID] = @ + 1]
  /\ wpc' = [wpc EXCEPT ![w] = "recv"]
  /\ wpost' = [wpost EXCEPT ![w] = NoPost]
  /\ werr' = [werr EXCEPT ![w] = NoErr]
  /\ UNCHANGED <<workerUnchanged, Users, usersToLoad, errs, wq, fetchFailed, errSent, runClean,
                 fetches, idsSent>>

(* "errCh <- err" meets the error consumer, which appends the error        *)
WSendErr(w) ==
  /\ wpc[w] = "sendErr"
  /\ "errCh" \notin closed
  /\ errs' = Append(errs, werr[w])
  /\ errSent' = [errSent EXCEPT ![werr[w].postID] = @ + 1]
  /\ wpc' = [wpc EXCEPT ![w] = afterSendErr(wpost[w])]
  /\ wpost' = [wpost EXCEPT ![w] = IF afterSendErr(wpost[w]) = "recv" THEN NoPost ELSE @]
  /\ werr' = [werr EXCEPT ![w] = IF afterSendErr(wpost[w]) = "recv" THEN NoErr ELSE @]
  /\ UNCHANGED <<workerUnchanged, Users, usersToLoad, posts, wq, fetchFailed, resSent, runClean,
                 fetches, idsSent>>

(* the range over postsCh ends when the channel is closed                  *)
WExit(w) ==
  /\ wpc[w] = "recv"
  /\ "loadPostsCh" \in closed
  /\ wpc' = [wpc EXCEPT ![w] = "done"]
  /\ UNCHANGED <<workerUnchanged, Users, usersToLoad, posts, errs, wpost, wq, werr,
                 fetchFailed, resSent, errSent, runClean, fetches, idsSent>>

(* routinesWG of detailsLoader: Wait returns when every worker has called  *)
(* Done                                                                    *)
poolWaitOneWorker(pcs) == \E w \in DOMAIN pcs : pcs[w] = "done"
poolWaitReturns(pcs) == \A w \in DOMAIN pcs : pcs[w] = "done"

(* the closing goroutine: routinesWG.Wait(), then the three closes         *)
nextToCloseNoResCh == IF "errCh" \notin closed THEN "errCh" ELSE "usersCh"
nextToClose == IF "errCh" \notin closed THEN "errCh"
               ELSE IF "usersCh" \notin closed THEN "usersCh" ELSE "resCh"

Closer ==
  /\ pc \in {"get", "send", "close", "wait"}
  /\ poolWaitReturns(wpc)
  /\ "resCh" \notin closed
  /\ closed' = closed \cup {nextToClose}
  /\ UNCHANGED <<run, pc, file, state, todo, zTopic, UserMapping, DefaultUserID, Topics, ParallelLoad, Users, url,
                 NextPage, sendQ, fatalError, posts, errs, usersToLoad, consDone, wpc, wpost,
                 wq, werr, mVars, histVars, fVars, poolHist, migHist, bVars>>

(* a consumer's range ends when its channel is closed                      *)
ConsumerExit(c) ==
  /\ c \in closed /\ c \notin consDone
  /\ consDone' = consDone \cup {c}
  /\ UNCHANGED <<run, pc, file, state, todo, zTopic, UserMapping, DefaultUserID, Topics, ParallelLoad, Users, url,
                 NextPage, sendQ, fatalError, posts, errs, usersToLoad, closed, wpc, wpost,
                 wq, werr, mVars, histVars, fVars, poolHist, migHist, bVars>>
(* -------------------- GetPosts: users, return to Migrate --------------- *)
(* Migrate line 40: a topic whose GetPosts reports a fatal error is skipped *)
afterGetPostsIgnoreFatal(fatal) == "migrate"
afterGetPosts(fatal) == IF fatal # None THEN "topics" ELSE "migrate"

inRequests(reqs, u) == Cardinality({x \in (DOMAIN reqs) \X (1 .. batchSize) :
                                      x[2] \in DOMAIN reqs[x[1]] /\ reqs[x[1]][x[2]] = u})

nilVotesOf(ps) ==
  UNION {{v.ID : v \in {x \in Range(ps[i].UserVotes) : x.User = NilUser}} : i \in DOMAIN ps}

(* the locals of GetPosts and migratePost once the topic's iteration of    *)
(* the Migrate loop is over                                                *)
LocalsGone ==
  /\ url' = NoPage /\ NextPage' = NoPage /\ sendQ' = <<>> /\ fatalError' = None
  /\ posts' = <<>> /\ errs' = <<>> /\ usersToLoad' = <<>>
  /\ closed' = {} /\ consDone' = {}
  /\ wpc' = [w \in Workers |-> "none"] /\ wpost' = [w \in Workers |-> NoPost]
  /\ wq' = [w \in Workers |-> <<>>] /\ werr' = [w \in Workers |-> NoErr]
  /\ pi' = 0 /\ mpc' = "none" /\ ci' = 0 /\ postID' = ""

TopicOver == pc' = "topics" /\ LocalsGone

(* routinesWG of GetPosts: Wait returns when the three consumers have      *)
(* called Done                                                             *)
routinesWaitResultsOnly(done) == "resCh" \in done
routinesWaitReturns(done) == done = Consumers

WaitRoutines ==
  /\ pc = "wait"
  /\ routinesWaitReturns(consDone)
  /\ pc' = "users"
  /\ UNCHANGED <<run, file, state, todo, zTopic, UserMapping, DefaultUserID, Topics, ParallelLoad,
                 Users, gpVars, mVars, histVars, fVars, poolHist, migHist, bVars>>

(* "if err != nil { return nil, nil, err }" ... "return posts, errs,       *)
(* fatalError": the ids of the returned posts, the post ids of the         *)
(* returned errors and the error                                           *)
getPostsResultKeepsOnError(ps, es, fatal, err) ==
  [returned |-> TRUE,
   posts |-> [i \in DOMAIN ps |-> ps[i].ID],
   errs |-> [i \in DOMAIN es |-> es[i].postID],
   err |-> IF err # None THEN err ELSE fatal]
getPostsResult(ps, es, fatal, err) ==
  IF err # None
    THEN [returned |-> TRUE, posts |-> <<>>, errs |-> <<>>, err |-> err]
    ELSE [returned |-> TRUE,
          posts |-> [i \in DOMAIN ps |-> ps[i].ID],
          errs |-> [i \in DOMAIN es |-> es[i].postID],
          err |-> fatal]

(* the ids of the requests of loadUsers that were answered                 *)
answeredIDs(ids, ok) ==
  UNION {Range(Batches(ids)[b]) : b \in 1 .. ok}

(* loadUsers and setUsers run, GetPosts returns and Migrate looks at       *)
(* fatalError                                                              *)
LoadUsers ==
  /\ pc = "users"
  /\ \E ok \in 0 .. Len(Batches(usersToLoad)) :
       LET r == loadUsers(Users, usersToLoad, ok)
           ps == setUsers(posts, r.Users)
           dest == IF r.err # None THEN "topics" ELSE afterGetPosts(fatalError)
       IN /\ Users' = r.Users
          /\ requested' = [u \in UserIDs |-> requested[u] + inRequests(r.requests, u)]
          /\ runClean' = (runClean /\ r.err = None)
          /\ getPostsReturn' = [getPostsReturn EXCEPT
                                 ![zTopic] = getPostsResult(ps, errs, fatalError, r.err)]
          /\ answered' = answered \cup answeredIDs(usersToLoad, ok)
          /\ IF dest = "migrate" /\ ps # <<>>
               THEN /\ posts' = ps
                    /\ nilVotes' = nilVotes \cup nilVotesOf(ps)
                    /\ pc' = "migrate"
                    /\ pi' = 1 /\ mpc' = "post" /\ ci' = 0 /\ postID' = ""
                    /\ UNCHANGED <<url, NextPage, sendQ, fatalError, errs, usersToLoad, closed,
                                   consDone, wpc, wpost, wq, werr>>
               ELSE /\ TopicOver
                    /\ UNCHANGED nilVotes
  /\ UNCHANGED <<run, file, state, todo, zTopic, UserMapping, DefaultUserID, Topics, ParallelLoad, created, calls,
                 loaded, fetchFailed, resSent, errSent, pageFailed, failedPosts, saves,
                 prevClean, fVars, fetches, received, idsSent, migHist, bVars>>
(* ------------------------------ migratePost ---------------------------- *)
CurPostByID ==
  CHOOSE p \in Range(posts) : Cardinality({q \in Range(posts) : q.ID < p.ID}) = pi - 1
CurPost == posts[pi]

(* the next record of the post after the one at (pos, i), or the return    *)
nextInPost(post, pos, i) ==
  IF pos = "post" /\ Len(post.Comments) > 0 THEN <<"comments", 1>>
  ELSE IF pos = "comments" /\ i < Len(post.Comments) THEN <<"comments", i + 1>>
  ELSE IF pos \in {"post", "comments"} /\ Len(post.UserVotes) > 0 THEN <<"votes", 1>>
  ELSE IF pos = "votes" /\ i < Len(post.UserVotes) THEN <<"votes", i + 1>>
  ELSE <<"return", 0>>

(* "if err != nil { return err }" after createPost/createComment/createVote *)
afterRecordIgnoreErr(post, pos, i, err) == nextInPost(post, pos, i)
afterRecord(post, pos, i, err) ==
  IF err # None THEN <<"return", 0>> ELSE nextInPost(post, pos, i)

Skipped == [id |-> "", err |-> None, UserMapping |-> UserMapping, called |-> FALSE,
            AuthorID |-> "", PostID |-> "", foc |-> {}, focOK |-> {}]

(* the common end of a step of migratePost on the record (objType, id):    *)
(* r is what the create function returned, newState and newPostID the      *)
(* ledger and the local postID afterwards                                  *)
RecordStep(r, objType, id, newState, newPostID) ==
  LET next == afterRecord(CurPost, mpc, ci, r.err) IN
    /\ state' = newState
    /\ UserMapping' = r.UserMapping
    /\ calls' = IF r.called THEN calls \cup {<<zTopic, objType, id>>} ELSE calls
    /\ created' = IF r.called /\ r.err = None
                    THEN [created EXCEPT ![<<zTopic, objType, id>>] = @ + 1]
                    ELSE created
    /\ failedPosts' = IF r.err # None THEN failedPosts \cup {CurPost.ID} ELSE failedPosts
    /\ runClean' = (runClean /\ r.err = None)
    /\ succeeded' = IF r.called /\ r.err = None
                      THEN succeeded \cup {<<zTopic, objType, id, r.id>>} ELSE succeeded
    /\ postOrder' = IF r.called /\ objType = "post" THEN Append(postOrder, id) ELSE postOrder
    /\ lastCall' = IF r.called THEN [objType |-> objType, id |-> id, PostID |-> r.PostID]
                                ELSE lastCall
    /\ focCalls' = focCalls \cup r.foc
    /\ focOK' = [u \in UserIDs |-> IF u \in r.focOK THEN focOK[u] + 1 ELSE focOK[u]]
    /\ IF next[1] # "return"
         THEN /\ mpc' = next[1] /\ ci' = next[2] /\ postID' = newPostID
              /\ UNCHANGED <<pc, pi, gpVars>>
       ELSE IF pi < Len(posts)
         THEN /\ pi' = pi + 1 /\ mpc' = "post" /\ ci' = 0 /\ postID' = ""
              /\ UNCHANGED <<pc, gpVars>>
       ELSE TopicOver
    /\ UNCHANGED <<run, file, todo, zTopic, DefaultUserID, Topics, ParallelLoad, Users, loaded, requested,
                   fetchFailed, resSent, errSent, pageFailed, nilVotes, saves, prevClean, fVars,
                   poolHist, endVars, bVars>>

MigratePost ==
  /\ pc = "migrate" /\ mpc = "post"
  /\ LET found == getIDFromState(state, zTopic, "post", CurPost.ID) IN
       IF found # ""
         THEN RecordStep(Skipped, "post", CurPost.ID, state, found)
         ELSE \E out \in Outcomes :
                LET r == createPost(CurPost, DefaultUserID, UserMapping, out,
                                    created[<<zTopic, "post", CurPost.ID>>])
                IN RecordStep(r, "post", CurPost.ID,
                              IF r.err = None
                                THEN saveIDToState(state, zTopic, "post", CurPost.ID, r.id)
                                ELSE state,
                              r.id)

MigrateComment ==
  /\ pc = "migrate" /\ mpc = "comments"
  /\ LET comment == CurPost.Comments[ci]
         found == getIDFromState(state, zTopic, "comment", comment.ID)
     IN IF found # ""
          THEN RecordStep(Skipped, "comment", comment.ID, state, postID)
          ELSE \E out \in Outcomes :
                 LET r == createComment(comment, postID, DefaultUserID, UserMapping, out,
                                        created[<<zTopic, "comment", comment.ID>>])
                 IN RecordStep(r, "comment", comment.ID,
                               IF r.err = None
                                 THEN saveIDToState(state, zTopic, "comment", comment.ID, r.id)
                                 ELSE state,
                               postID)

MigrateVote ==
  /\ pc = "migrate" /\ mpc = "votes"
  /\ LET vote == CurPost.UserVotes[ci] IN
       IF voteSkipped(state, zTopic, vote)
         THEN RecordStep(Skipped, "vote", vote.ID, state, postID)
         ELSE \E out \in Outcomes :
                LET r == createVote(vote, postID, DefaultUserID, UserMapping, out)
                IN RecordStep(r, "vote", vote.ID,
                              IF r.err = None
                                THEN saveIDToState(state, zTopic, "vote", vote.ID, r.id)
                                ELSE state,
                              postID)

(* ------------------------------- saveState ----------------------------- *)
saveStateErrorDropped(f, st, writeOK) ==
  IF writeOK THEN [file |-> [exists |-> TRUE, raw |-> Marshal(st)], err |-> None]
  ELSE [file |-> f, err |-> None]

saveState(f, st, writeOK) ==
  IF writeOK THEN [file |-> [exists |-> TRUE, raw |-> Marshal(st)], err |-> None]
  ELSE [file |-> f, err |-> "write"]

SaveState ==
  /\ pc = "topics" /\ todo = {}
  /\ \E writeOK \in BOOLEAN :
       LET r == saveState(file, state, writeOK) IN
         /\ file' = r.file
         /\ printed' = IF r.err # None THEN [printed |-> TRUE, state |-> state] ELSE printed
         /\ returned' = IF r.err # None THEN "cannot save State file" ELSE None
         /\ runClean' = (runClean /\ r.err = None)
  /\ saves' = saves + 1
  /\ pc' = "exit"
  /\ UNCHANGED <<run, state, todo, zTopic, UserMapping, DefaultUserID, Topics, ParallelLoad, Users, gpVars, mVars,
                 created, calls, loaded, requested, fetchFailed, resSent, errSent, pageFailed,
                 failedPosts, nilVotes, prevClean, fVars, poolHist, callHist, bVars>>

(* ------------------------ the process ends, a new one ------------------ *)
NewProcess ==
  /\ run < MaxRuns
  /\ run' = run + 1
  /\ pc' = "load" /\ state' = <<>> /\ todo' = Topics /\ zTopic' = ""
  /\ UserMapping' = Agents /\ Users' = <<>>
  /\ LocalsGone
  /\ calls' = {} /\ loaded' = <<>> /\ requested' = [u \in UserIDs |-> 0]
  /\ fetchFailed' = {} /\ resSent' = [p \in PostIDs |-> 0] /\ errSent' = [p \in PostIDs |-> 0]
  /\ pageFailed' = {} /\ failedPosts' = {} /\ nilVotes' = {} /\ saves' = 0 /\ runClean' = TRUE
  /\ fetches' = {} /\ received' = {} /\ idsSent' = {}
  /\ getPostsReturn' = [t \in SourceTopics |-> NotReturned] /\ answered' = {}
  /\ succeeded' = {} /\ postOrder' = <<>> /\ lastCall' = NoCall
  /\ focOK' = [u \in UserIDs |-> 0] /\ focCalls' = {}
  /\ printed' = NotPrinted /\ returned' = NoReturn
  /\ UNCHANGED <<file, DefaultUserID, Topics, ParallelLoad, created, fVars, bVars>>

(* the process is killed before Migrate has returned                       *)
Kill ==
  /\ pc # "exit"
  /\ NewProcess
  /\ prevClean' = FALSE

(* Migrate has returned and the tool is started again                      *)
Rerun ==
  /\ pc = "exit"
  /\ NewProcess
  /\ prevClean' = runClean

(* one run of the tool                                                     *)
Next ==
  \/ LoadState
  \/ NextTopic
  \/ GetPage
  \/ \E w \in Workers : SendPost(w)
  \/ CloseInput
  \/ \E w \in Workers : WSendAuthor(w)
  \/ \E w \in Workers : WGetComments(w)
  \/ \E w \in Workers : WGetVotes(w)
  \/ \E w \in Workers : WSendUser(w)
  \/ \E w \in Workers : WSendRes(w)
  \/ \E w \in Workers : WSendErr(w)
  \/ \E w \in Workers : WExit(w)
  \/ Closer
  \/ \E c \in Consumers : ConsumerExit(c)
  \/ WaitRoutines
  \/ LoadUsers
  \/ MigratePost
  \/ MigrateComment
  \/ MigrateVote
  \/ SaveState

Spec == Init /\ [][Next]_vars

(* The same run under the Go scheduler: a goroutine that can take a step   *)
(* is eventually run and every network call returns, so some enabled step  *)
(* of the program is always eventually taken.                              *)
SpecLive == Init /\ [][Next]_vars /\ WF_vars(Next)

(* One run of the tool on both topics that starts from a state file left   *)
(* by an earlier run: post 1 alone (the earlier run failed on comment 11), *)
(* or post 1 with comment 11 and post 3 stored with an empty id.           *)
PriorLedgers ==
  {[t \in {"T1"} |-> [k \in {formatKey("post", 1)} |-> "P1"]],
   [t \in {"T1", "T2"} |->
      IF t = "T1"
        THEN [k \in {formatKey("post", 1), formatKey("comment", 11)} |->
                IF k = formatKey("post", 1) THEN "P1" ELSE "C11"]
        ELSE [k \in {formatKey("post", 3)} |-> ""]]}

InitResume ==
  /\ run = 1
  /\ \E prior \in PriorLedgers :
       /\ file = [exists |-> TRUE, raw |-> Marshal(prior)]
       /\ created = [x \in Triples |->
                       IF x[1] \in DOMAIN prior /\ formatKey(x[2], x[3]) \in DOMAIN prior[x[1]]
                         THEN 1 ELSE 0]
  /\ DefaultUserID \in {"", "D"}
  /\ Topics = SourceTopics
  /\ ParallelLoad = Parallel
  /\ prevClean = FALSE
  /\ fserver = <<>> /\ fres = NotFetched
  /\ bids = <<>> /\ bres = NotLoaded
  /\ ProcessStart

SpecResume == InitResume /\ [][Next]_vars

(* Runs of the tool that share the state file: --parallel 1 on topic T1,   *)
(* each run can be killed at any point and the tool started again.         *)
InitRuns ==
  /\ run = 1
  /\ file = [exists |-> FALSE, raw |-> Marshal(<<>>)]
  /\ DefaultUserID \in {"", "D"}
  /\ Topics = {"T1"}
  /\ ParallelLoad = 1
  /\ created = [t \in Triples |-> 0]
  /\ prevClean = FALSE
  /\ fserver = <<>> /\ fres = NotFetched
  /\ bids = <<>> /\ bres = NotLoaded
  /\ ProcessStart

NextRuns == Next \/ Kill \/ Rerun

SpecRuns == InitRuns /\ [][NextRuns]_vars

(* --------------------- the paginated fetcher on its own ---------------- *)
(* Servers of up to MaxPages pages whose cursors point forward: a request  *)
(* fails, or the page has a null item array, or it carries 0..2 items.     *)
ItemsOfPage(i) == {<<>>, <<i + i>>, <<i + i, i + i + 1>>}
NextsOfPage(i, n) == {NoPage} \cup (i + 1 .. n)
PageChoices(i, n) ==
  {ErrResponse}
    \cup {NullPage(next) : next \in NextsOfPage(i, n)}
    \cup {Page(items, next) : items \in ItemsOfPage(i), next \in NextsOfPage(i, n)}

RECURSIVE ServersFrom(_, _)
ServersFrom(i, n) ==
  IF i > n THEN {<<>>}
  ELSE {<<r>> \o rest : r \in PageChoices(i, n), rest \in ServersFrom(i + 1, n)}

InitFetch ==
  /\ run = 1
  /\ file = [exists |-> FALSE, raw |-> Marshal(<<>>)]
  /\ DefaultUserID = ""
  /\ Topics = SourceTopics
  /\ ParallelLoad = Parallel
  /\ created = [t \in Triples |-> 0]
  /\ prevClean = FALSE
  /\ ProcessStart
  /\ fserver \in UNION {ServersFrom(1, n) : n \in 1 .. MaxPages}
  /\ fres = NotFetched
  /\ bids = <<>> /\ bres = NotLoaded

mainVars == <<run, pc, file, state, todo, zTopic, UserMapping, DefaultUserID, Topics,
              ParallelLoad, Users, gpVars, mVars, histVars, poolHist, migHist>>

FetchComments ==
  /\ fres.fn = "none"
  /\ fres' = [fn |-> "getComments", res |-> getComments(fserver)]
  /\ UNCHANGED <<fserver, mainVars, bVars>>

FetchVotes ==
  /\ fres.fn = "none"
  /\ fres' = [fn |-> "getVotes", res |-> getVotes(fserver)]
  /\ UNCHANGED <<fserver, mainVars, bVars>>

NextFetch == FetchComments \/ FetchVotes

SpecFetch == InitFetch /\ [][NextFetch]_vars

(* ----------------------- the batch loader on its own ------------------- *)
(* loadUsers is called with an empty cache and a list of n distinct        *)
(* pending ids, 0 <= n <= MaxIDs; the requests succeed up to one of them   *)
InitBatch ==
  /\ run = 1
  /\ file = [exists |-> FALSE, raw |-> Marshal(<<>>)]
  /\ DefaultUserID = ""
  /\ Topics = SourceTopics
  /\ ParallelLoad = Parallel
  /\ created = [t \in Triples |-> 0]
  /\ prevClean = FALSE
  /\ ProcessStart
  /\ fserver = <<>> /\ fres = NotFetched
  /\ bids \in {[i \in 1 .. n |-> i] : n \in 0 .. MaxIDs}
  /\ bres = NotLoaded

LoadBatches ==
  /\ ~bres.called
  /\ \E ok \in 0 .. Len(Batches(bids)) :
       LET r == loadUsers(<<>>, bids, ok) IN
         bres' = [called |-> TRUE, Users |-> r.Users, err |-> r.err, requests |-> r.requests]
  /\ UNCHANGED <<bids, mainVars, fVars>>

NextBatch == LoadBatches

SpecBatch == InitBatch /\ [][NextBatch]_vars

(* ============================== properties ============================= *)
ledgerOf(st, t) == IF t \in DOMAIN st THEN st[t] ELSE <<>>
callsOfTopic(cs, t) == {c \in cs : c[1] = t}
callsOfPost(cs, p) == {c \in cs : <<c[2], c[3]>> \in RecordsOfPost(p)}
keysOfPost(st, p) == {k \in DOMAIN ledgerOf(st, TopicOfPost(p)) : k \in RecordsOfPost(p)}

(* the record that migratePost has reached                                 *)
CurRecord ==
  IF mpc = "post" THEN <<"post", CurPost.ID>>
  ELSE IF mpc = "comments" THEN <<"comment", CurPost.Comments[ci].ID>>
  ELSE <<"vote", CurPost.UserVotes[ci].ID>>

(* a step of migratePost, as opposed to the end of the process             *)
MigrateStep == pc = "migrate" /\ run' = run

(* C1: over all runs on one state file, killed or not, every (topic, kind, *)
(* id) has at most one successful destination create call.                 *)
C1_CreatedAtMostOnce == \A t \in Triples : created[t] <= 1

(* C2: a run that starts from the ledger saved by a run on the same source *)
(* in which nothing failed issues no create call at all.                   *)
C2_SecondRunCreatesNothing == prevClean => calls = {}

(* C3: when migratePost reaches a record whose key is in the ledger, it    *)
(* issues no create call and leaves the ledger as it is, whatever value is *)
(* stored under the key.                                                   *)
C3_LedgeredNeverRecreated ==
  [][(MigrateStep /\ formatKey(CurRecord[1], CurRecord[2]) \in DOMAIN ledgerOf(state, zTopic))
       => (calls' = calls /\ state' = state)]_vars

(* C4 as claimed: once migratePost has failed for a post of topic T, no    *)
(* further create call is issued for any record of T in that run.          *)
C4_NoCreateInTopicAfterFailure ==
  [][\A p \in failedPosts :
       callsOfTopic(calls', TopicOfPost(p)) = callsOfTopic(calls, TopicOfPost(p))]_vars

(* C4 amended: once migratePost has failed for a post, no further create   *)
(* call is issued for the records of that post in that run, and no key     *)
(* leaves the ledger (a non-empty value stays as it is).                   *)
C4_NoCreateForPostAfterFailure ==
  [][/\ \A p \in failedPosts : callsOfPost(calls', p) = callsOfPost(calls, p)
     /\ \A t \in DOMAIN state :
          /\ t \in DOMAIN state'
          /\ \A k \in DOMAIN state[t] :
               /\ k \in DOMAIN state'[t]
               /\ state[t][k] # "" => state'[t][k] = state[t][k]]_vars

(* post 1 has failed and the create call for post 2, later in the list of  *)
(* the same topic, has been issued                                         *)
C4_Witness ==
  /\ pc = "migrate" /\ CurPost.ID = 2 /\ mpc = "votes"
  /\ 1 \in failedPosts
  /\ <<"T1", "post", 2>> \in calls
  /\ formatKey("post", 2) \in DOMAIN ledgerOf(state, "T1")

(* C5: a topic whose listing failed on a page gets no create call and its  *)
(* ledger entries stay as loaded; Migrate still ranges over every topic    *)
(* and calls saveState once.                                               *)
C5_PageFailureAbandonsTopic ==
  \A t \in pageFailed :
    /\ callsOfTopic(calls, t) = {}
    /\ ledgerOf(state, t) = ledgerOf(loaded, t)
    /\ pc = "exit" => (todo = {} /\ saves = 1)

(* page 2 of T1 failed after post 1 of page 1 had been enriched; T2 came   *)
(* afterwards, its post was created and the ledger was saved               *)
C5_Witness ==
  /\ pc = "exit" /\ zTopic = "T2"
  /\ pageFailed = {"T1"} /\ resSent[1] = 1
  /\ <<"T2", "post", 3>> \in calls
  /\ file.exists

(* C6: a parent whose comment or vote fetch failed is never sent on resCh, *)
(* exactly one error is sent on errCh for it (none only while its worker   *)
(* is about to send it), and none of its records gets a create call or a   *)
(* new ledger entry in that run.                                           *)
C6_FailedParentDropped ==
  \A p \in fetchFailed :
    /\ resSent[p] = 0
    /\ errSent[p] = IF \E w \in Workers : wpc[w] = "sendErr" /\ werr[w].postID = p THEN 0 ELSE 1
    /\ callsOfPost(calls, p) = {}
    /\ keysOfPost(state, p) = keysOfPost(loaded, p)

(* the comment fetch of post 1 and the vote fetch of post 2 both failed,   *)
(* the run went on to the end and created the post of the other topic      *)
C6_Witness ==
  /\ pc = "exit" /\ fetchFailed = {1, 2}
  /\ errSent[1] = 1 /\ errSent[2] = 1
  /\ <<"T2", "post", 3>> \in calls

(* C7: a vote whose User is nil after GetPosts never gets a create call or *)
(* a ledger entry in that run, and the step of migratePost that reaches it *)
(* fails nothing, with or without a default user id.                       *)
C7_NilVoterExcluded ==
  /\ [](\A v \in nilVotes :
          /\ \A t \in SourceTopics : <<t, "vote", v>> \notin calls
          /\ \A t \in SourceTopics :
               formatKey("vote", v) \in DOMAIN ledgerOf(state, t)
                 => formatKey("vote", v) \in DOMAIN ledgerOf(loaded, t))
  /\ [][(MigrateStep /\ mpc = "votes" /\ CurPost.UserVotes[ci].User = NilUser)
          => (failedPosts' = failedPosts /\ calls' = calls /\ state' = state)]_vars

(* a default user id is configured, vote 21 of post 2 has no voter and was *)
(* passed over, the next vote of the post was created                      *)
C7_Witness ==
  /\ DefaultUserID = "D"
  /\ 21 \in nilVotes
  /\ <<"T1", "vote", 21>> \notin calls
  /\ <<"T1", "vote", 22>> \in calls
  /\ 2 \notin failedPosts

(* C8: within one run, over all topics and workers, a user id occurs at    *)
(* most once in the id lists of the batch user requests.                   *)
C8_UserRequestedOnce == \A u \in UserIDs : requested[u] <= 1

(* user 1 was sent by the workers for post 1, for vote 22 of post 2 and    *)
(* for post 3 of the other topic, and was requested once                   *)
C8_Witness ==
  /\ pc = "exit"
  /\ resSent[1] = 1 /\ resSent[2] = 1 /\ resSent[3] = 1
  /\ requested[1] = 1 /\ requested[3] = 1

(* a chain page1 -> ... -> pageN -> "" whose requests all succeed          *)
IsChain(server) ==
  \A i \in DOMAIN server :
    /\ ~server[i].err
    /\ server[i].NextPage = IF i = Len(server) THEN NoPage ELSE i + 1

ChainItems(server) == Flatten([i \in DOMAIN server |-> server[i].items])

(* C9 as claimed: on every such chain the fetcher makes N requests and     *)
(* returns the concatenation of the N item arrays.                         *)
C9_ChainConcatenated ==
  (fres.fn # "none" /\ IsChain(fserver))
    => fres.res = FetchResult(ChainItems(fserver), None, Len(fserver))

(* C9 amended: the same, for chains in which no page before the last has a *)
(* null item array.                                                        *)
C9_ChainWithArraysConcatenated ==
  (fres.fn # "none" /\ IsChain(fserver)
     /\ \A i \in DOMAIN fserver : i < Len(fserver) => ~fserver[i].null)
    => fres.res = FetchResult(ChainItems(fserver), None, Len(fserver))

(* getComments has fetched a chain of three pages with items on each       *)
C9_Witness ==
  /\ fres.fn = "getComments" /\ IsChain(fserver) /\ Len(fserver) = Len(<<1, 2, 3>>)
  /\ \A i \in DOMAIN fserver : ~fserver[i].null /\ Len(fserver[i].items) > 0
  /\ fres.res.err = None /\ fres.res.reqs = Len(fserver)
  /\ Len(fres.res.items) > Len(fserver)

(* C10: without a default user id, a comment with a nil author that is not *)
(* in the ledger is passed over (no create call, no ledger entry) and      *)
(* migratePost goes on with the next record of the post.                   *)
C10_MissingAuthorConfined ==
  [][(/\ MigrateStep /\ mpc = "comments" /\ DefaultUserID = ""
      /\ CurPost.Comments[ci].Author = NilUser
      /\ getIDFromState(state, zTopic, "comment", CurPost.Comments[ci].ID) = "")
       => (/\ calls' = calls /\ state' = state
           /\ pc' = "migrate" /\ pi' = pi
           /\ <<mpc', ci'>> = nextInPost(CurPost, mpc, ci))]_vars

(* C11: no comment fetch is called for a parent whose CommentCount is 0,   *)
(* no vote fetch for a parent whose VoteCount is 0; a parent with both     *)
(* counts 0 that a worker has received never fails and is either still     *)
(* held by that worker on its way to resCh or has been sent on resCh once. *)
C11_NoFetchForZeroCount ==
  /\ \A f \in fetches :
       /\ f[1] = "comments" => SourcePosts[f[2]].CommentCount > 0
       /\ f[1] = "votes" => SourcePosts[f[2]].VoteCount > 0
  /\ \A p \in received :
       (SourcePosts[p].CommentCount = 0 /\ SourcePosts[p].VoteCount = 0)
         => /\ p \notin fetchFailed /\ errSent[p] = 0
            /\ IF \E w \in Workers : wpost[w].ID = p
                 THEN resSent[p] = 0
                      /\ \A w \in Workers :
                           wpost[w].ID = p => wpc[w] \in {"sendAuthor", "sendRes"}
                 ELSE resSent[p] = 1

(* the run is over: post 3 (no comments, no votes) and post 2 (no          *)
(* comments) were sent on resCh, the only fetches were the comments of     *)
(* post 1 and the votes of post 2                                          *)
C11_Witness ==
  /\ pc = "exit"
  /\ received = {1, 2, 3}
  /\ resSent[3] = 1 /\ resSent[2] = 1
  /\ fetches = {<<"comments", 1>>, <<"votes", 2>>}

(* the entries of topic t that the ledger st has and the ledger old lacks, *)
(* as (topic, kind, id, value)                                             *)
entriesAdded(st, old, t) ==
  {<<t, k[1], k[2], ledgerOf(st, t)[k]>> : k \in DOMAIN ledgerOf(st, t) \ DOMAIN ledgerOf(old, t)}

(* C12: at every point of a run the ledger entries added since the ledger  *)
(* was loaded are exactly the records whose create call has succeeded in   *)
(* this run, each under the id that the call returned, a vote under the    *)
(* marker "s".                                                             *)
C12_AddedKeysAreCreatedRecords ==
  /\ \A t \in SourceTopics :
       entriesAdded(state, loaded, t) = {x \in succeeded : x[1] = t}
  /\ \A x \in succeeded : x[2] = "vote" => x[4] = "s"

(* the channel on which a worker at position pos is about to send          *)
sendsOn(pos) ==
  IF pos \in {"sendAuthor", "sendCommentUsers", "sendVoteUsers"} THEN {"usersCh"}
  ELSE IF pos = "sendRes" THEN {"resCh"}
  ELSE IF pos = "sendErr" THEN {"errCh"}
  ELSE {}

(* C13: resCh, errCh and usersCh are closed only when every worker has     *)
(* exited: no worker is about to send on a closed channel (or can still    *)
(* receive a post) while one of them is closed, and no consumer has seen   *)
(* its channel closed while a worker is running.                           *)
C13_ClosedAfterWorkersExit ==
  /\ (closed \cap Consumers # {}) => \A w \in Workers : wpc[w] = "done"
  /\ \A w \in Workers : sendsOn(wpc[w]) \cap closed = {}
  /\ consDone # {} => \A w \in Workers : wpc[w] = "done"

(* both posts of topic T1 went through the pool, the three channels are    *)
(* closed and no consumer has left its loop yet                            *)
C13_Witness ==
  /\ pc = "wait" /\ zTopic = "T1"
  /\ Consumers \subseteq closed /\ consDone = {}
  /\ resSent[1] + errSent[1] = 1 /\ resSent[2] + errSent[2] = 1

InGetPosts == pc \in {"get", "send", "close", "wait", "users"}
Channels == Consumers \cup {"loadPostsCh"}

(* C14: every call of GetPosts returns, and when it is about to return     *)
(* (routinesWG.Wait() is behind it) the input channel and the three output *)
(* channels are closed with no send pending on them, and the workers, the  *)
(* closing goroutine and the three consumers have terminated.              *)
C14_GetPostsReturnsClean ==
  /\ InGetPosts ~> ~InGetPosts
  /\ [](pc = "users"
          => /\ closed = Channels
             /\ sendQ = <<>>
             /\ \A w \in Workers : wpc[w] = "done" /\ wq[w] = <<>>
             /\ consDone = Consumers)

(* GetPosts is about to return for topic T1 after its listing failed on    *)
(* page 2 and the comment fetch of post 1, received before, failed too     *)
C14_Witness ==
  /\ pc = "users" /\ zTopic = "T1"
  /\ fatalError # None
  /\ errSent[1] = 1
  /\ closed = Channels /\ consDone = Consumers

(* the ids of the posts that GetPosts returned, in the order of the result *)
resultOrder == [i \in DOMAIN posts |-> posts[i].ID]

(* the ids of the sequence for which a create-post call of topic t is in cs *)
callsIn(ids, t, cs) ==
  LET called(id) == <<t, "post", id>> \in cs IN SelectSeq(ids, called)

postsOfTopic(ids, t) ==
  LET inTopic(id) == TopicOfPost(id) = t IN SelectSeq(ids, inTopic)

(* C15: Migrate issues the create-post calls of a topic in the order of    *)
(* the list that GetPosts returned, which is the order in which the        *)
(* workers sent the posts on resCh, not the order of the source listing.   *)
C15_CreatedInResultOrder ==
  pc = "migrate" => postsOfTopic(postOrder, zTopic) = callsIn(resultOrder, zTopic, calls)

(* with two workers, post 2 (listed on page 2 of T1) came out of the pool  *)
(* before post 1 (page 1) and was created first                            *)
C15_Witness ==
  /\ pc = "migrate" /\ zTopic = "T1"
  /\ resultOrder = <<2, 1>>
  /\ postsOfTopic(postOrder, "T1") = <<2, 1>>

(* the goroutines that can read or write Client.Users in the current       *)
(* state: the user-id consumer until it has left its loop, the main        *)
(* goroutine while it is in loadUsers / setUsers                           *)
cacheTasks ==
  (IF InGetPosts /\ "usersCh" \notin consDone THEN {"usersCh consumer"} ELSE {})
    \cup (IF pc = "users" THEN {"main"} ELSE {})

workersRunning == \E w \in Workers : wpc[w] \notin {"none", "done"}

(* C16: at most one goroutine can access the user cache at a time: while a *)
(* worker runs it is the user-id consumer alone, and the main goroutine    *)
(* enters loadUsers / setUsers only when the three consumers have          *)
(* terminated; the cache changes only in a step of one of these two.       *)
C16_CacheHasOneOwner ==
  /\ [](/\ Cardinality(cacheTasks) <= 1
        /\ workersRunning => cacheTasks = {"usersCh consumer"}
        /\ pc = "users" => consDone = Consumers /\ ~workersRunning)
  /\ [][Users' # Users =>
          \/ pc = "users"
          \/ cacheTasks = {"usersCh consumer"} /\ usersToLoad' # usersToLoad
          \/ run' # run]_vars

(* the consumer has put the three user ids of topic T1 into the cache as   *)
(* nil slots and has terminated; the main goroutine is about to load them  *)
C16_Witness ==
  /\ pc = "users" /\ zTopic = "T1"
  /\ Range(usersToLoad) = {1, 2, 3}
  /\ \A u \in {1, 2, 3} : u \in DOMAIN Users /\ Users[u] = NilUser
  /\ cacheTasks = {"main"}

(* the ledger key of the parent that migratePost is working on             *)
parentKey == formatKey("post", CurPost.ID)

(* the child record that migratePost has reached is not in the ledger and, *)
(* for a vote, has a voter                                                 *)
childToCreate ==
  /\ mpc \in {"comments", "votes"}
  /\ formatKey(CurRecord[1], CurRecord[2]) \notin DOMAIN ledgerOf(state, zTopic)
  /\ mpc = "votes" => CurPost.UserVotes[ci].User # NilUser

(* C17: a step of migratePost on a post that the ledger holds with an id   *)
(* issues no call and goes on to the children of the post; a step on a     *)
(* child that is not in the ledger issues its create call or fails on the  *)
(* author, it is never passed over; every create-comment and create-vote   *)
(* call is issued for a parent that has a ledger entry and carries exactly *)
(* the id stored under the parent's key.                                   *)
C17_ChildCarriesLedgeredPostID ==
  [][MigrateStep =>
       /\ (mpc = "post" /\ getIDFromState(state, zTopic, "post", CurPost.ID) # "")
            => /\ calls' = calls /\ failedPosts' = failedPosts
               /\ (Len(CurPost.Comments) + Len(CurPost.UserVotes) > 0)
                    => (pc' = "migrate" /\ pi' = pi /\ mpc' \in {"comments", "votes"})
       /\ childToCreate => (calls' # calls \/ CurPost.ID \in failedPosts')
       /\ (mpc \in {"comments", "votes"} /\ calls' # calls)
            => /\ parentKey \in DOMAIN ledgerOf(state, zTopic)
               /\ lastCall'.objType = CurRecord[1] /\ lastCall'.id = CurRecord[2]
               /\ lastCall'.PostID = ledgerOf(state, zTopic)[parentKey]]_vars

(* second run: post 1 is in the ledger that was loaded, comment 11 is not; *)
(* no call was issued for post 1 and the create call for comment 11        *)
(* carried the id that the first run had ledgered for the post             *)
C17_Witness ==
  /\ run = 2
  /\ formatKey("post", 1) \in DOMAIN ledgerOf(loaded, "T1")
  /\ ledgerOf(loaded, "T1")[formatKey("post", 1)] = "P1"
  /\ formatKey("comment", 11) \notin DOMAIN ledgerOf(loaded, "T1")
  /\ <<"T1", "post", 1>> \notin calls
  /\ lastCall = [objType |-> "comment", id |-> 11, PostID |-> "P1"]

(* C18 as claimed: a successful loadUsers on n pending ids has issued      *)
(* ceil(n / batchSize) requests, none for n = 0, each with 1 to batchSize  *)
(* ids, the requests in order concatenate to the pending list, and the     *)
(* cache holds every returned user under its id.                           *)
C18_BatchesPartitionPending ==
  (bres.called /\ bres.err = None)
    => /\ Len(bres.requests) = (Len(bids) + batchSize - 1) \div batchSize
       /\ \A i \in DOMAIN bres.requests :
            Len(bres.requests[i]) >= 1 /\ Len(bres.requests[i]) <= batchSize
       /\ Flatten(bres.requests) = bids
       /\ \A u \in Range(bids) \cap SourceUsers :
            u \in DOMAIN bres.Users /\ bres.Users[u] = UserRec(u)

(* the same for a pending list that is not empty                           *)
C18_NonEmptyPending == Len(bids) > 0 => C18_BatchesPartitionPending

(* C19: in one run the find-or-create call is never issued for a user id   *)
(* of the agent mapping, and for every other user id it succeeds at most   *)
(* once.                                                                   *)
C19_FindOrCreateOncePerUser ==
  /\ focCalls \cap DOMAIN Agents = {}
  /\ \A u \in UserIDs : focOK[u] <= 1

(* a response on which the fetcher has to fail: the request failed, or the *)
(* page has a next cursor and a null item array                            *)
Malformed(response) == response.err \/ (response.null /\ response.NextPage # NoPage)

(* the pages reached from page k by following the cursors up to the first  *)
(* page that ends the fetch                                                *)
RECURSIVE cursorWalk(_, _)
cursorWalk(server, k) ==
  IF Malformed(server[k]) \/ server[k].NextPage = NoPage
    THEN <<k>>
    ELSE <<k>> \o cursorWalk(server, server[k].NextPage)

(* C20: the fetcher stops at the first page whose request failed or that   *)
(* has a cursor with a null item array, returns an error and no items and  *)
(* requests nothing after it; when there is no such page on its way (a     *)
(* page with an empty array, or a null array and an empty cursor, is not   *)
(* one) it returns no error.                                               *)
C20_FetcherFailsOnMalformedPage ==
  fres.fn # "none"
    => LET walk == cursorWalk(fserver, 1)
           last == fserver[walk[Len(walk)]]
       IN /\ fres.res.reqs = Len(walk)
          /\ Malformed(last) => (fres.res.err # None /\ fres.res.items = <<>>)
          /\ ~Malformed(last) => fres.res.err = None

(* getVotes got items on page 1 and then a page with a cursor to page 3    *)
(* and a null array: it returned an error, no items, after two requests    *)
C20_Witness ==
  /\ fres.fn = "getVotes" /\ Len(fserver) = Len(<<1, 2, 3>>)
  /\ ~Malformed(fserver[1]) /\ fserver[1].items # <<>> /\ fserver[1].NextPage = Len(<<1, 2>>)
  /\ ~fserver[2].err /\ fserver[2].null /\ fserver[2].NextPage = Len(<<1, 2, 3>>)
  /\ fres.res.err # None /\ fres.res.items = <<>> /\ fres.res.reqs = Len(<<1, 2>>)

(* getComments got an empty array on page 1 and a null array with an empty *)
(* cursor on page 2: no error                                              *)
C20_WitnessNoError ==
  /\ fres.fn = "getComments" /\ Len(fserver) = Len(<<1, 2>>)
  /\ ~fserver[1].err /\ ~fserver[1].null /\ fserver[1].items = <<>>
  /\ ~fserver[2].err /\ fserver[2].null /\ fserver[2].NextPage = NoPage
  /\ fres.res.err = None

(* the ledger old with the entries of adds (topic, kind, id, value) put in *)
withEntries(old, adds) ==
  [t \in DOMAIN old \cup {x[1] : x \in adds} |->
     [k \in DOMAIN ledgerOf(old, t) \cup {formatKey(x[2], x[3]) : x \in {y \in adds : y[1] = t}} |->
        IF \E x \in adds : x[1] = t /\ formatKey(x[2], x[3]) = k
          THEN (CHOOSE x \in adds : x[1] = t /\ formatKey(x[2], x[3]) = k)[4]
          ELSE old[t][k]]]

fileLedger == IF file.exists THEN Unmarshal(file.raw) ELSE <<>>

(* C21: the state file is not written while Migrate works on the topics;   *)
(* a run whose ledger was loaded writes it exactly once, when every topic  *)
(* has been ranged over, whatever failed in between; a successful write    *)
(* leaves the loaded ledger with the entries of this run's successful      *)
(* create calls in the file; a failed write makes Migrate print the ledger *)
(* and return an error.                                                    *)
C21_LedgerSavedOnceAtEnd ==
  /\ pc \notin {"load", "exit"} => (saves = 0 /\ fileLedger = loaded /\ returned = NoReturn)
  /\ (pc = "exit" /\ returned # "cannot load State file")
       => /\ saves = 1 /\ todo = {}
          /\ state = withEntries(loaded, succeeded)
          /\ returned = None => (file.exists /\ fileLedger = state /\ printed = NotPrinted)
          /\ returned # None => (/\ returned = "cannot save State file"
                                  /\ printed = [printed |-> TRUE, state |-> state])
  /\ (pc = "exit" /\ returned = "cannot load State file") => saves = 0

(* the run started from a ledger with post 1, the listing of T2 failed and *)
(* post 2 of T1 failed, comment 12 was created; the file holds the loaded  *)
(* entry and the new one                                                   *)
C21_Witness ==
  /\ pc = "exit" /\ returned = None /\ saves = 1
  /\ pageFailed = {"T2"} /\ 2 \in failedPosts
  /\ formatKey("post", 1) \in DOMAIN ledgerOf(loaded, "T1")
  /\ <<"T1", "comment", 12, "C12">> \in succeeded
  /\ ledgerOf(fileLedger, "T1")[formatKey("post", 1)] = "P1"
  /\ ledgerOf(fileLedger, "T1")[formatKey("comment", 12)] = "C12"

(* the user ids that the record of a parent refers to                      *)
refsOf(post) ==
  {post.AuthorID}
    \cup {c.AuthorID : c \in Range(post.Comments)}
    \cup {v.UserID : v \in Range(post.UserVotes)}

sentFor(p) == {x[2] : x \in {y \in idsSent : y[1] = p}}

usersFilledIn(post) ==
  /\ post.Author = cacheGet(Users, post.AuthorID)
  /\ \A c \in Range(post.Comments) : c.Author = cacheGet(Users, c.AuthorID)
  /\ \A v \in Range(post.UserVotes) : v.User = cacheGet(Users, v.UserID)

(* C22: when a worker is about to send a parent on resCh, and for every    *)
(* parent in the results, the parent's author id and the author / voter id *)
(* of each of its comments and votes has been sent on usersCh for it and   *)
(* is a key of the user cache; when GetPosts has returned, every user      *)
(* reference of the returned records is the cache value for its id.        *)
C22_UserIDsSentBeforeResult ==
  /\ \A w \in Workers :
       wpc[w] = "sendRes" => refsOf(wpost[w]) \subseteq sentFor(wpost[w].ID)
  /\ \A i \in DOMAIN posts :
       /\ refsOf(posts[i]) \subseteq sentFor(posts[i].ID)
       /\ refsOf(posts[i]) \subseteq DOMAIN Users
  /\ pc = "migrate" => \A i \in DOMAIN posts : usersFilledIn(posts[i])

(* GetPosts has returned both parents of T1 with their comments and votes: *)
(* the deleted user 3 is a nil slot of the cache and a nil reference on    *)
(* comment 11 and vote 21, users 1 and 2 are filled in                     *)
C22_Witness ==
  /\ pc = "migrate" /\ zTopic = "T1" /\ Len(posts) = Len(<<1, 2>>)
  /\ sentFor(1) = {1, 2, 3} /\ sentFor(2) = {1, 2, 3}
  /\ Users[3] = NilUser /\ Users[1] = UserRec(1) /\ Users[2] = UserRec(2)
  /\ \E i \in DOMAIN posts :
       /\ posts[i].ID = 1 /\ posts[i].Author = UserRec(1)
       /\ posts[i].Comments[1].Author = NilUser
       /\ posts[i].Comments[2].Author = UserRec(2)

(* how many times x occurs in the sequence                                 *)
occurrences(seq, x) == Cardinality({i \in DOMAIN seq : seq[i] = x})

(* the parents of topic t that the listing loop has sent to the pool       *)
pushed(t) == {p \in received : TopicOfPost(p) = t}

(* every parent in ps is exactly once in results or in errors, never in    *)
(* both, and nothing else is in them                                       *)
oneOutputEach(ps, results, errors) ==
  /\ \A p \in ps : occurrences(results, p) + occurrences(errors, p) = 1
  /\ Len(results) + Len(errors) = Cardinality(ps)

(* C23 as stated: each parent sent to the pool is exactly once in the      *)
(* results or in the errors that GetPosts returns, so that on return of    *)
(* GetPosts the number of results plus the number of errors is the number  *)
(* of parents listed before a fatal page error.                            *)
C23_OneOutputPerParentReturned ==
  \A t \in SourceTopics :
    getPostsReturn[t].returned
      => oneOutputEach(pushed(t), getPostsReturn[t].posts, getPostsReturn[t].errs)

(* C23 amended: each parent sent to the pool is sent at most once on resCh *)
(* or errCh, never on both; when the three consumers have finished it is   *)
(* exactly once in the posts or in the errs they gathered; GetPosts        *)
(* returns these two lists, also with a fatal page error, except when the  *)
(* batch user request failed: then it returns no post and no error.        *)
C23_OneOutputPerParentGathered ==
  /\ \A p \in PostIDs :
       /\ resSent[p] + errSent[p] <= 1
       /\ p \notin received => resSent[p] + errSent[p] = 0
  /\ pc = "users"
       => oneOutputEach(pushed(zTopic), resultOrder, [i \in DOMAIN errs |-> errs[i].postID])
  /\ \A t \in SourceTopics :
       getPostsReturn[t].returned
         => IF getPostsReturn[t].err = "users"
              THEN getPostsReturn[t].posts = <<>> /\ getPostsReturn[t].errs = <<>>
              ELSE /\ oneOutputEach(pushed(t), getPostsReturn[t].posts, getPostsReturn[t].errs)
                   /\ \A p \in pushed(t) :
                        /\ occurrences(getPostsReturn[t].posts, p) = resSent[p]
                        /\ occurrences(getPostsReturn[t].errs, p) = errSent[p]

(* GetPosts returned for T1 after its two parents went through two         *)
(* workers: post 2 as a result, post 1 as an error; for T2 the batch user  *)
(* request failed after post 3 had been gathered as a result, and GetPosts *)
(* returned nothing but that error                                         *)
C23_Witness ==
  /\ ParallelLoad = Parallel
  /\ getPostsReturn["T1"] = [returned |-> TRUE, posts |-> <<2>>, errs |-> <<1>>, err |-> None]
  /\ getPostsReturn["T2"] = [returned |-> TRUE, posts |-> <<>>, errs |-> <<>>, err |-> "users"]
  /\ pushed("T2") = {3} /\ resSent[3] = 1

(* the <<user id, user reference>> pairs of a record returned by GetPosts  *)
userRefs(post) ==
  {<<post.AuthorID, post.Author>>}
    \cup {<<c.AuthorID, c.Author>> : c \in Range(post.Comments)}
    \cup {<<v.UserID, v.User>> : v \in Range(post.UserVotes)}

nilRefsExplained ==
  \A i \in DOMAIN posts : \A r \in userRefs(posts[i]) :
    r[2] = NilUser => (r[1] \in answered /\ r[1] \notin SourceUsers)

(* C24: for every parent that GetPosts returned, in any topic of the run,  *)
(* a nil user reference on the parent, a comment or a vote means that the  *)
(* id was in a batch user request that succeeded and did not return that   *)
(* user; a failed batch request of an earlier topic leaves no id of a      *)
(* later topic unresolved and never requested again.                       *)
C24_NilUserWasRequested ==
  pc = "migrate" => nilRefsExplained

(* the same in the runs where no batch user request has failed             *)
C24_NoFailedRequest ==
  (pc = "migrate" /\ \A t \in SourceTopics : getPostsReturn[t].err # "users")
    => nilRefsExplained

(* GetPosts returned comment 11 of post 1 with a nil author: user 3 was in *)
(* a batch request that succeeded and is not a user of the source          *)
C24_WitnessNoFailedRequest ==
  /\ pc = "migrate" /\ zTopic = "T1" /\ 3 \in answered
  /\ \A t \in SourceTopics : getPostsReturn[t].err # "users"
  /\ \E i \in DOMAIN posts :
       /\ posts[i].ID = 1 /\ Len(posts[i].Comments) = Len(<<11, 12>>)
       /\ posts[i].Comments[1].Author = NilUser
====
